---- MODULE Spec2Model ----
(***************************************************************************)
(* Direct-messaging core of the vacancyamerica backend: the conversation   *)
(* and message collections, the friend/block graph that gates them, the    *)
(* chat REST handlers and the realtime (socket) gateway.                   *)
(*                                                                         *)
(* Every handler is an async function: it is modelled as a call record     *)
(* that moves from one await to the next, one database operation per       *)
(* step, so that concurrent requests interleave exactly at their awaits.   *)
(* The persistence layer is the only synchronisation point.                *)
(***************************************************************************)
EXTENDS Integers, Sequences, FiniteSets, Bags, TLC

(***************************************************************************)
(* Bounds of the model.                                                    *)
(***************************************************************************)
\* handler invocations that may be in flight at the same time
MaxCalls == 2
\* messages the message collection may hold
MaxMsgs == 2
\* times one typing event may be relayed
MaxRelays == 1
\* messages of a stored log that is paged through, their creation times,
\* and the page sizes requested
MaxLog == 3
MaxStamp == 2
MaxLimit == 2
\* length of the texts given to the codec, after an optional 'enc:'
MaxText == 3

\* conversations stored where no index limits them
MaxConvs == 3

\* user ids with a User document
Users == {1, 2, 3}
\* an id that resolves to no User document
NoUser == 4
\* null / absent id
None == 0

VARIABLES
    friends,        \* User.friends        : [Users -> SUBSET Users]
    blocked,        \* User.blocked_users  : [Users -> SUBSET Users]
    requests,       \* FriendRequest collection: set of [sender, receiver]
    conversations,  \* Conversation collection, in insertion (_id) order
    messages,       \* Message collection, in insertion (_id) order
    calls,          \* bag of handler invocations in flight, with their locals
    emitted,        \* bag of realtime events emitted with io.to(room).emit
    sockets         \* realtime connections

vars == <<friends, blocked, requests, conversations, messages, calls, emitted, sockets>>

(***************************************************************************)
(* Helpers.                                                                *)
(***************************************************************************)
Range(s) == {s[i] : i \in DOMAIN s}

\* Array.prototype.sort on a two-element array of ids
SortPair(a, b) == IF a <= b THEN <<a, b>> ELSE <<b, a>>

\* Array.prototype.filter
RECURSIVE SelectSeqBy(_, _)
SelectSeqBy(s, keep) ==
    IF s = <<>> THEN <<>>
    ELSE IF Head(s) \in keep THEN <<Head(s)>> \o SelectSeqBy(Tail(s), keep)
    ELSE SelectSeqBy(Tail(s), keep)

(***************************************************************************)
(* Texts are sequences of characters.                                      *)
(***************************************************************************)
EncPrefix == <<"e", "n", "c", ":">>
Sentinel == <<"[Encrypted message]">>
\* nonces crypto.randomBytes returns: a fresh one at every call
IVs == {"iv1", "iv2", "iv3", "iv4"}
FreshIV(n) == CASE n = 1 -> "iv1" [] n = 2 -> "iv2" [] n = 3 -> "iv3" [] OTHER -> "iv4"
\* characters of the request texts of the model
PlainChars == {" ", "h", "i", "y", "o", ":", "<", ">", "e", "n", "c"}

StartsWith(s, p) == Len(s) >= Len(p) /\ SubSeq(s, 1, Len(p)) = p

\* String.prototype.trim
RECURSIVE TrimLeft(_)
TrimLeft(s) == IF s # <<>> /\ Head(s) = " " THEN TrimLeft(Tail(s)) ELSE s
RECURSIVE TrimRight(_)
TrimRight(s) ==
    IF s # <<>> /\ s[Len(s)] = " " THEN TrimRight(SubSeq(s, 1, Len(s) - 1)) ELSE s
\* a trim that removes nothing
TrimNothing(s) == s

Trim(s) == TrimRight(TrimLeft(s))

\* xss(): markup delimiters are escaped
RECURSIVE Xss(_)
Xss(s) ==
    IF s = <<>> THEN <<>>
    ELSE (CASE Head(s) = "<" -> <<"&lt;">>
            [] Head(s) = ">" -> <<"&gt;">>
            [] OTHER -> <<Head(s)>>) \o Xss(Tail(s))

\* one byte of AES-GCM keystream output for one plaintext character
CipherByte(ch) == "~" \o ch
CipherBytes == {CipherByte(ch) : ch \in PlainChars \cup {"&lt;", "&gt;"}}
PlainOf(b) == CHOOSE ch \in PlainChars \cup {"&lt;", "&gt;"} : CipherByte(ch) = b

Encipher(text) == [i \in 1..Len(text) |-> CipherByte(text[i])]
Decipher(ct) == [i \in 1..Len(ct) |-> PlainOf(ct[i])]

\* the GCM authentication tag of (key, iv, ciphertext)
RECURSIVE Digest(_)
Digest(ct) == IF ct = <<>> THEN "" ELSE Head(ct) \o Digest(Tail(ct))
AuthTag(iv, ct) == "tag(" \o iv \o "," \o Digest(ct) \o ")"

\* Message.encrypt; iv is the fresh random nonce, ok = FALSE is the catch path
encrypt(text, iv, ok) ==
    IF text = <<>> THEN text
    ELSE IF ~ok THEN text
    ELSE EncPrefix \o <<iv, AuthTag(iv, Encipher(text))>> \o Encipher(text)

\* a decipher that accepts every tag
AuthenticAlways(iv, tag, ct) ==
    /\ iv \in IVs
    /\ \A i \in DOMAIN ct : ct[i] \in CipherBytes

\* decipher.final(): throws unless the tag authenticates the ciphertext
Authentic(iv, tag, ct) ==
    /\ iv \in IVs
    /\ \A i \in DOMAIN ct : ct[i] \in CipherBytes
    /\ tag = AuthTag(iv, ct)

\* String.prototype.split(':')
RECURSIVE Split(_)
Split(s) ==
    IF \A i \in DOMAIN s : s[i] # ":" THEN <<s>>
    ELSE LET k == CHOOSE i \in DOMAIN s :
                      s[i] = ":" /\ \A j \in 1..(i - 1) : s[j] # ":"
         IN <<SubSeq(s, 1, k - 1)>> \o Split(SubSeq(s, k + 1, Len(s)))

\* hex decoding (Buffer.from(s, 'hex'), decipher.update(s, 'hex')) stops at
\* the first character that is no hex digit; the characters of the request
\* texts stand for such characters, the bytes of a ciphertext for hex digits
NotHex == PlainChars \cup {"&lt;", "&gt;", "[Encrypted message]"}
RECURSIVE HexDecode(_)
HexDecode(s) ==
    IF s = <<>> \/ Head(s) \in NotHex THEN <<>>
    ELSE <<Head(s)>> \o HexDecode(Tail(s))

\* Message.decrypt
decrypt(encryptedText) ==
    IF encryptedText = <<>> THEN encryptedText
    ELSE IF StartsWith(encryptedText, EncPrefix)
    THEN LET combined == SubSeq(encryptedText, 5, Len(encryptedText))
         IN IF /\ Len(combined) >= 2
               /\ Authentic(combined[1], combined[2], SubSeq(combined, 3, Len(combined)))
            THEN Decipher(SubSeq(combined, 3, Len(combined)))
            ELSE Sentinel
    ELSE IF ":" \in Range(encryptedText)
    THEN LET parts == Split(encryptedText)
         IN IF Len(parts) >= 3
            THEN LET iv == HexDecode(parts[1])
                     authTag == HexDecode(parts[2])
                     \* parts.slice(2).join(':') decodes up to its first ':'
                     ciphertext == HexDecode(parts[3])
                 IN IF /\ Len(iv) = 1
                       /\ Len(authTag) = 1
                       /\ Authentic(iv[1], authTag[1], ciphertext)
                    THEN Decipher(ciphertext)
                    ELSE Sentinel
            ELSE encryptedText
    ELSE encryptedText

\* the legacy wire format that decrypt still reads: iv(hex):authTag(hex):
\* ciphertext(hex), here a text that the cipher sealed under nonce iv
LegacySealed(text, iv) ==
    <<iv, ":", AuthTag(iv, Encipher(text)), ":">> \o Encipher(text)

\* a stored body whose k-th element has been overwritten at rest
CorruptedAt(body, k) == [body EXCEPT ![k] = "0000"]

(***************************************************************************)
(* Documents.                                                              *)
(***************************************************************************)
NoLastMessage == [text |-> <<>>, sender |-> None, createdAt |-> None]

NoConversation ==
    [id |-> None, participants |-> <<>>, lastMessage |-> NoLastMessage, updatedAt |-> None]

\* the Conversation document with _id = id, as a query returns it
ConversationDoc(id) ==
    [id |-> id,
     participants |-> conversations[id].participants,
     lastMessage |-> conversations[id].lastMessage,
     updatedAt |-> conversations[id].updatedAt]

ConvIds == DOMAIN conversations
MsgIds == DOMAIN messages

\* new Date() at a write is the millisecond of the latest write or a later
\* one.  Timestamps of the two collections are never compared with each
\* other, so each collection keeps its own scale.
Newest(stamps) == CHOOSE t \in stamps \cup {0} : \A o \in stamps \cup {0} : o <= t
NowCreatedAt ==
    LET latest == Newest({messages[m].createdAt : m \in MsgIds}) IN {latest, latest + 1}
NowUpdatedAt ==
    LET latest == Newest({conversations[c].updatedAt : c \in ConvIds}) IN {latest, latest + 1}

(***************************************************************************)
(* Calls in flight.                                                        *)
(***************************************************************************)
NumCalls == BagCardinality(calls)
InFlight == BagToSet(calls)
Spawn(c) == calls (+) SetToBag({c})
Step(old, new) == (calls (-) SetToBag({old})) (+) SetToBag({new})

\* one use of the codec: a text is sealed, and what was sealed is opened
CodecCall(text) ==
    [op |-> "codec", pc |-> "encrypt", text |-> text, sealed |-> <<>>, opened |-> <<>>]

\* Message.encrypt(text): the nonce is random, and the cipher may throw
Seal(c) ==
    /\ c.op = "codec" /\ c.pc = "encrypt"
    /\ \E iv \in IVs, ok \in BOOLEAN :
          calls' = Step(c, [c EXCEPT !.pc = "decrypt", !.sealed = encrypt(c.text, iv, ok)])
    /\ UNCHANGED <<friends, blocked, requests, conversations, messages, emitted, sockets>>

\* Message.decrypt(sealed)
Open(c) ==
    /\ c.op = "codec" /\ c.pc = "decrypt"
    /\ calls' = Step(c, [c EXCEPT !.pc = "opened", !.opened = decrypt(c.sealed)])
    /\ UNCHANGED <<friends, blocked, requests, conversations, messages, emitted, sockets>>

(***************************************************************************)
(* Relationship gate (chatController.areFriends).                          *)
(***************************************************************************)
areFriends(userId1, userId2) ==
    LET isFriend == userId2 \in friends[userId1]
        isBlocked == userId2 \in blocked[userId1]
    IN isFriend /\ ~isBlocked

(***************************************************************************)
(* Conversation store.                                                     *)
(***************************************************************************)
\* the unique index on { participants: 1 } is a multikey index: every array
\* element is a key, and a key may occur in one indexed document only.  The
\* partial filter indexes the documents that have a second participant.
Indexed(c) == Len(c.participants) >= 2
IndexKeys(participants) == Range(participants)
DuplicateKey(participants) ==
    /\ Len(participants) >= 2
    /\ \E id \in ConvIds :
          /\ Indexed(conversations[id])
          /\ IndexKeys(conversations[id].participants) \cap IndexKeys(participants) # {}

\* Conversation.findOne({ participants: { $all: participants, $size: 2 } })
FindByPair(participants) ==
    LET hits == {id \in ConvIds :
                    /\ Range(participants) \subseteq Range(conversations[id].participants)
                    /\ Len(conversations[id].participants) = 2}
    IN IF hits = {} THEN None ELSE CHOOSE id \in hits : \A o \in hits : id <= o

\* a membership test that lets every user of an existing conversation through
isParticipantUnchecked(id, userId) == id \in ConvIds

isParticipant(id, userId) == userId \in Range(conversations[id].participants)

(***************************************************************************)
(* POST /api/chat/conversations (chatController.startConversation).        *)
(***************************************************************************)
StartCall(userId, participantId, pc, status) ==
    [op |-> "startConversation", pc |-> pc, userId |-> userId,
     participantId |-> participantId, status |-> status,
     conversation |-> NoConversation]

\* request validation and the relationship gate
StartConversation(userId, participantId) ==
    /\ NumCalls < MaxCalls
    /\ calls' = Spawn(
          IF participantId = None THEN StartCall(userId, participantId, "done", 400)
          ELSE IF participantId = userId THEN StartCall(userId, participantId, "done", 400)
          ELSE IF ~areFriends(userId, participantId)
               THEN StartCall(userId, participantId, "done", 403)
          ELSE StartCall(userId, participantId, "findOne", 0))
    /\ UNCHANGED <<friends, blocked, requests, conversations, messages, emitted, sockets>>

\* find existing
StartFindOne(c) ==
    /\ c.op = "startConversation" /\ c.pc = "findOne"
    /\ LET found == FindByPair(SortPair(c.userId, c.participantId))
       IN calls' = Step(c,
              IF found # None
              THEN [c EXCEPT !.pc = "done", !.status = 200,
                             !.conversation = ConversationDoc(found)]
              ELSE [c EXCEPT !.pc = "create"])
    /\ UNCHANGED <<friends, blocked, requests, conversations, messages, emitted, sockets>>

\* or create new: the insert is rejected by the unique index, and the
\* rejection is caught by the handler's catch block
StartCreate(c) ==
    /\ c.op = "startConversation" /\ c.pc = "create"
    /\ LET participants == SortPair(c.userId, c.participantId)
       IN IF DuplicateKey(participants)
          THEN /\ calls' = Step(c, [c EXCEPT !.pc = "done", !.status = 500])
               /\ UNCHANGED conversations
          ELSE \E t \in NowUpdatedAt :
               /\ conversations' = Append(conversations,
                      [participants |-> participants,
                       lastMessage |-> NoLastMessage,
                       updatedAt |-> t])
               /\ calls' = Step(c, [c EXCEPT !.pc = "findById",
                      !.conversation = [NoConversation EXCEPT !.id = Len(conversations) + 1]])
    /\ UNCHANGED <<friends, blocked, requests, messages, emitted, sockets>>

\* the insert in a deployment whose database has no unique index: the schema
\* declares a plain index on { participants: 1 } before the unique one, both
\* get the default name participants_1, and a database that built the plain
\* one first refuses the second as a conflict; no insert is rejected then
StartCreateUnindexed(c) ==
    /\ c.op = "startConversation" /\ c.pc = "create"
    /\ \E t \in NowUpdatedAt :
          /\ conversations' = Append(conversations,
                 [participants |-> SortPair(c.userId, c.participantId),
                  lastMessage |-> NoLastMessage,
                  updatedAt |-> t])
          /\ calls' = Step(c, [c EXCEPT !.pc = "findById",
                 !.conversation = [NoConversation EXCEPT !.id = Len(conversations) + 1]])
    /\ UNCHANGED <<friends, blocked, requests, messages, emitted, sockets>>

\* re-read the created document for the response
StartFindById(c) ==
    /\ c.op = "startConversation" /\ c.pc = "findById"
    /\ calls' = Step(c, [c EXCEPT !.pc = "done", !.status = 200,
                                  !.conversation = ConversationDoc(c.conversation.id)])
    /\ UNCHANGED <<friends, blocked, requests, conversations, messages, emitted, sockets>>

\* the response has been sent: the invocation is over
Return(c) ==
    /\ c.pc = "done"
    /\ calls' = calls (-) SetToBag({c})
    /\ UNCHANGED <<friends, blocked, requests, conversations, messages, emitted, sockets>>

(***************************************************************************)
(* Message store.                                                          *)
(***************************************************************************)
NoMessage ==
    [id |-> None, conversationId |-> None, sender |-> None, text |-> <<>>,
     type |-> "text", readBy |-> <<>>, createdAt |-> None]

\* the Message document with _id = id, as a lean query returns it
MessageDoc(id) ==
    [id |-> id,
     conversationId |-> messages[id].conversationId,
     sender |-> messages[id].sender,
     text |-> messages[id].text,
     type |-> messages[id].type,
     readBy |-> messages[id].readBy,
     createdAt |-> messages[id].createdAt]

\* sends that have passed validation and have not inserted their message yet
PendingCreates == {c \in InFlight : c.op = "sendMessage" /\ c.pc = "create"}
PendingCreateCount ==
    LET n[S \in SUBSET PendingCreates] ==
            IF S = {} THEN 0
            ELSE LET c == CHOOSE x \in S : TRUE IN CopiesIn(c, calls) + n[S \ {c}]
    IN n[PendingCreates]

(***************************************************************************)
(* POST /api/chat/conversations/:id/messages (chatController.sendMessage). *)
(***************************************************************************)
SendCall(userId, conversationId, pc, status) ==
    [op |-> "sendMessage", pc |-> pc, userId |-> userId,
     conversationId |-> conversationId, status |-> status, text |-> <<>>,
     sanitizedText |-> <<>>, participants |-> <<>>, encryptedText |-> <<>>,
     message |-> NoMessage]

\* text validation, sanitisation and the participant check
SendMessage(userId, conversationId, text) ==
    /\ NumCalls < MaxCalls
    /\ Len(messages) + PendingCreateCount < MaxMsgs
    /\ calls' = Spawn([
          (IF text = <<>> \/ Trim(text) = <<>>
           THEN SendCall(userId, conversationId, "done", 400)
           ELSE IF conversationId \notin ConvIds
           THEN SendCall(userId, conversationId, "done", 404)
           ELSE IF ~isParticipant(conversationId, userId)
           THEN SendCall(userId, conversationId, "done", 403)
           ELSE [SendCall(userId, conversationId, "create", 0) EXCEPT
                    !.sanitizedText = Xss(Trim(text)),
                    !.participants = conversations[conversationId].participants])
          EXCEPT !.text = text])
    /\ UNCHANGED <<friends, blocked, requests, conversations, messages, emitted, sockets>>

\* encrypt the text and insert the message; the key is a SHA-256 digest and
\* the nonce has IV_LENGTH bytes, so the cipher does not throw here
SendCreate(c) ==
    /\ c.op = "sendMessage" /\ c.pc = "create"
    /\ \E t \in NowCreatedAt :
          LET encryptedText == encrypt(c.sanitizedText, FreshIV(Len(messages) + 1), TRUE)
          IN /\ messages' = Append(messages,
                    [conversationId |-> c.conversationId,
                     sender |-> c.userId,
                     text |-> encryptedText,
                     type |-> "text",
                     readBy |-> <<c.userId>>,
                     createdAt |-> t])
             /\ calls' = Step(c, [c EXCEPT !.pc = "update",
                    !.encryptedText = encryptedText,
                    !.message = [NoMessage EXCEPT !.id = Len(messages) + 1,
                                                  !.createdAt = t]])
    /\ UNCHANGED <<friends, blocked, requests, conversations, emitted, sockets>>

\* update the conversation's lastMessage snapshot
SendUpdate(c) ==
    /\ c.op = "sendMessage" /\ c.pc = "update"
    /\ \E t \in NowUpdatedAt :
          conversations' = [conversations EXCEPT ![c.conversationId] =
              [@ EXCEPT !.lastMessage = [text |-> c.encryptedText,
                                         sender |-> c.userId,
                                         createdAt |-> c.message.createdAt],
                        !.updatedAt = t]]
    /\ calls' = Step(c, [c EXCEPT !.pc = "findById"])
    /\ UNCHANGED <<friends, blocked, requests, messages, emitted, sockets>>

\* a delivery to every connection that was opened for the user of the room,
\* whatever its state
InRoomOfIdentity(room) == {s \in DOMAIN sockets : sockets[s].token.id = room}

\* io.to(room): the connections that are in the room when the event is
\* emitted; the event is written to them and kept nowhere
InRoom(room) == {s \in DOMAIN sockets : room \in sockets[s].rooms}

\* the update of the snapshot is rejected by the database: the rejection is
\* caught by the handler's catch block, which answers 500
SendUpdateFails(c) ==
    /\ c.op = "sendMessage" /\ c.pc = "update"
    /\ calls' = Step(c, [c EXCEPT !.pc = "done", !.status = 500])
    /\ UNCHANGED <<friends, blocked, requests, conversations, messages, emitted, sockets>>

\* a notification that reaches every participant, the sender included
NewMessageEventsToAll(c, populatedMessage) ==
    {[type |-> "newMessage", room |-> c.participants[i],
      conversationId |-> c.conversationId, message |-> populatedMessage,
      actor |-> c.userId, to |-> InRoom(c.participants[i])] :
        i \in DOMAIN c.participants}

\* the newMessage events of one send: one per participant other than the sender
NewMessageEvents(c, populatedMessage) ==
    LET recipientIds == SelectSeqBy(c.participants, Users \ {c.userId})
    IN {[type |-> "newMessage", room |-> recipientIds[i],
         conversationId |-> c.conversationId, message |-> populatedMessage,
         actor |-> c.userId, to |-> InRoom(recipientIds[i])] :
           i \in DOMAIN recipientIds}

\* re-read the message, put the plaintext back, emit and respond
SendRespond(c) ==
    /\ c.op = "sendMessage" /\ c.pc = "findById"
    /\ LET populatedMessage == [MessageDoc(c.message.id) EXCEPT !.text = c.sanitizedText]
       IN /\ emitted' = emitted (+) SetToBag(NewMessageEvents(c, populatedMessage))
          /\ calls' = Step(c, [c EXCEPT !.pc = "done", !.status = 201,
                                        !.message = populatedMessage])
    /\ UNCHANGED <<friends, blocked, requests, conversations, messages, sockets>>

(***************************************************************************)
(* Read receipts: Message.updateMany({ conversationId, sender: { $ne },    *)
(* readBy: { $nin } }, { $addToSet: { readBy } }).  The statement is not   *)
(* atomic over the collection: every document is matched and updated       *)
(* atomically on its own, in _id order.                                    *)
(***************************************************************************)
\* $addToSet on an array
AddToSet(array, v) == IF v \in Range(array) THEN array ELSE Append(array, v)

\* the filter of the update
Unread(m, conversationId, userId) ==
    /\ m.conversationId = conversationId
    /\ m.sender # userId
    /\ userId \notin Range(m.readBy)

\* a write that overwrites the reader list with the reader
MarkOneOverwrite(m, conversationId, userId) ==
    IF Unread(m, conversationId, userId)
    THEN [m EXCEPT !.readBy = <<userId>>]
    ELSE m

\* the write to one matched document
MarkOne(m, conversationId, userId) ==
    IF Unread(m, conversationId, userId)
    THEN [m EXCEPT !.readBy = AddToSet(@, userId)]
    ELSE m

\* the documents the scan of call c has still to visit that match its filter
ToMark(c) ==
    {id \in MsgIds : id >= c.scan /\ Unread(messages[id], c.conversationId, c.userId)}

\* the scan has visited every document that was stored when it began; a
\* document inserted since then may be visited or missed
ScanOver(c) == \A id \in ToMark(c) : id > c.last

\* a scan that pushes the reader onto every message of the other participant,
\* read or not
UpdateNextPush(c) ==
    \E id \in {x \in MsgIds : /\ x >= c.scan
                               /\ messages[x].conversationId = c.conversationId
                               /\ messages[x].sender # c.userId} :
        /\ messages' = [messages EXCEPT ![id].readBy = Append(@, c.userId)]
        /\ calls' = Step(c, [c EXCEPT !.scan = id + 1, !.modified = @ + 1])

\* one step of the scan: the next matching document is updated
UpdateNext(c) ==
    /\ ToMark(c) # {}
    /\ LET id == CHOOSE x \in ToMark(c) : \A y \in ToMark(c) : x <= y
       IN /\ messages' = [messages EXCEPT ![id] = MarkOne(@, c.conversationId, c.userId)]
          /\ calls' = Step(c, [c EXCEPT !.scan = id + 1,
                 !.modified = IF messages'[id] # messages[id] THEN @ + 1 ELSE @])

(***************************************************************************)
(* GET /api/chat/conversations/:id/messages (chatController.getMessages).  *)
(***************************************************************************)
\* parseInt(req.query.limit) || 30
DefaultLimit == 30

Reverse(s) == [i \in 1..Len(s) |-> s[Len(s) + 1 - i]]

GetCall(userId, conversationId, before, limit, pc, status) ==
    [op |-> "getMessages", pc |-> pc, userId |-> userId,
     conversationId |-> conversationId, status |-> status,
     before |-> before, limit |-> limit,
     bounded |-> FALSE, lt |-> None,
     page |-> <<>>, hasMore |-> FALSE, cursor |-> None,
     scan |-> 1, last |-> 0, modified |-> 0, seen |-> <<>>]

\* a fetch that checks only that the conversation exists
GetMessagesOfAnyone(userId, conversationId, before, limit) ==
    /\ NumCalls < MaxCalls
    /\ calls' = Spawn(
          IF conversationId \notin ConvIds
          THEN GetCall(userId, conversationId, before, limit, "done", 404)
          ELSE GetCall(userId, conversationId, before, limit,
                       IF before # None THEN "cursor" ELSE "find", 0))
    /\ UNCHANGED <<friends, blocked, requests, conversations, messages, emitted, sockets>>

\* the participant check
GetMessages(userId, conversationId, before, limit) ==
    /\ NumCalls < MaxCalls
    /\ calls' = Spawn(
          IF conversationId \notin ConvIds
          THEN GetCall(userId, conversationId, before, limit, "done", 404)
          ELSE IF ~isParticipant(conversationId, userId)
          THEN GetCall(userId, conversationId, before, limit, "done", 403)
          ELSE GetCall(userId, conversationId, before, limit,
                       IF before # None THEN "cursor" ELSE "find", 0))
    /\ UNCHANGED <<friends, blocked, requests, conversations, messages, emitted, sockets>>

\* resolve the cursor to its timestamp
GetCursor(c) ==
    /\ c.op = "getMessages" /\ c.pc = "cursor"
    /\ calls' = Step(c,
          IF c.before \in MsgIds
          THEN [c EXCEPT !.pc = "find", !.bounded = TRUE,
                         !.lt = messages[c.before].createdAt]
          ELSE [c EXCEPT !.pc = "find"])
    /\ UNCHANGED <<friends, blocked, requests, conversations, messages, emitted, sockets>>

\* a page query that is not restricted to the conversation
MatchingAnyConversation(c) ==
    {id \in MsgIds : c.bounded => messages[id].createdAt < c.lt}

\* a page query that also matches the messages of the cursor's own timestamp
MatchingUpTo(c) ==
    {id \in MsgIds :
        /\ messages[id].conversationId = c.conversationId
        /\ (c.bounded => messages[id].createdAt <= c.lt)}

\* the documents the page query matches
Matching(c) ==
    {id \in MsgIds :
        /\ messages[id].conversationId = c.conversationId
        /\ (c.bounded => messages[id].createdAt < c.lt)}

\* sort({ createdAt: -1 }): any order of the ids with createdAt descending
NewestFirst(ids) ==
    {order \in [1..Cardinality(ids) -> ids] :
        /\ \A i, j \in DOMAIN order : i # j => order[i] # order[j]
        /\ \A i, j \in DOMAIN order :
              i < j => messages[order[i]].createdAt >= messages[order[j]].createdAt}

\* fetch limit + 1 rows, drop the extra one, decrypt
GetFind(c) ==
    /\ c.op = "getMessages" /\ c.pc = "find"
    /\ \E order \in NewestFirst(Matching(c)) :
          LET fetched == SubSeq(order, 1, IF Len(order) < c.limit + 1
                                          THEN Len(order) ELSE c.limit + 1)
              hasMore == Len(fetched) > c.limit
              kept == IF hasMore THEN SubSeq(fetched, 1, Len(fetched) - 1) ELSE fetched
              decryptedMessages ==
                  [i \in DOMAIN kept |->
                      [MessageDoc(kept[i]) EXCEPT !.text = decrypt(@)]]
          IN calls' = Step(c, [c EXCEPT !.pc = "updateMany",
                                        !.page = decryptedMessages,
                                        !.hasMore = hasMore,
                                        !.last = Len(messages)])
    /\ UNCHANGED <<friends, blocked, requests, conversations, messages, emitted, sockets>>

\* mark unread messages as read
GetUpdateMany(c) ==
    /\ c.op = "getMessages" /\ c.pc = "updateMany"
    /\ UpdateNext(c)
    /\ UNCHANGED <<friends, blocked, requests, conversations, emitted, sockets>>

\* the scan is over: respond, oldest message first
GetRespond(c) ==
    /\ c.op = "getMessages" /\ c.pc = "updateMany"
    /\ ScanOver(c)
    /\ LET reversed == Reverse(c.page)
       IN calls' = Step(c, [c EXCEPT !.pc = "done", !.status = 200,
              !.page = reversed,
              !.cursor = IF Len(reversed) > 0 THEN reversed[1].id ELSE None])
    /\ UNCHANGED <<friends, blocked, requests, conversations, messages, emitted, sockets>>

\* the ids of a page, oldest first
PageIds(page) == [i \in DOMAIN page |-> page[i].id]

\* the client pages back: while hasMore is true it fetches again with
\* before = the cursor of the page it has received, and keeps the pages
FetchNext(c) ==
    /\ c.op = "getMessages" /\ c.pc = "done" /\ c.status = 200 /\ c.hasMore
    /\ calls' = Step(c, [GetCall(c.userId, c.conversationId, c.cursor, c.limit,
                                 "cursor", 0)
                             EXCEPT !.seen = PageIds(c.page) \o c.seen])
    /\ UNCHANGED <<friends, blocked, requests, conversations, messages, emitted, sockets>>

(***************************************************************************)
(* Realtime gateway (socket/chatSocket.js).                                *)
(***************************************************************************)
Sockets == {1, 2, 3}
NoToken == [kind |-> "none", id |-> None]
\* handshake credentials: absent, not verifiable, signed for an id
Tokens ==
    {NoToken, [kind |-> "invalid", id |-> 1]}
    \cup {[kind |-> "signed", id |-> u] : u \in {1, 2, NoUser}}

IdleSocket == [state |-> "idle", token |-> NoToken, userId |-> None, rooms |-> {}]

\* a handshake that verifies the signature and skips the user lookup
VerifiedSignatureOnly(token) == token.kind = "signed"

\* jwt.verify and the user lookup of the handshake middleware
Verified(token) == token.kind = "signed" /\ token.id \in Users

\* a client opens a connection: every connection is a socket of its own
Connect(s, token) ==
    /\ sockets[s].state = "idle"
    /\ sockets' = [sockets EXCEPT ![s] = [IdleSocket EXCEPT !.state = "connecting",
                                                            !.token = token]]
    /\ UNCHANGED <<friends, blocked, requests, conversations, messages, calls, emitted>>

\* io.use: authenticate the connection
Authenticate(s) ==
    /\ sockets[s].state = "connecting"
    /\ sockets' = [sockets EXCEPT ![s] =
          IF Verified(@.token)
          THEN [@ EXCEPT !.state = "authenticated", !.userId = sockets[s].token.id]
          ELSE [@ EXCEPT !.state = "refused"]]
    /\ UNCHANGED <<friends, blocked, requests, conversations, messages, calls, emitted>>

\* io.on('connection'): join the personal room, register the handlers
OnConnection(s) ==
    /\ sockets[s].state = "authenticated"
    /\ sockets' = [sockets EXCEPT ![s] =
          [@ EXCEPT !.state = "joined", !.rooms = @ \cup {sockets[s].userId}]]
    /\ UNCHANGED <<friends, blocked, requests, conversations, messages, calls, emitted>>

Disconnect(s) ==
    /\ sockets[s].state = "joined"
    /\ sockets' = [sockets EXCEPT ![s] = [@ EXCEPT !.state = "disconnected", !.rooms = {}]]
    /\ UNCHANGED <<friends, blocked, requests, conversations, messages, calls, emitted>>

MarkReadCall(s, userId, conversationId, pc) ==
    [op |-> "markRead", pc |-> pc, socket |-> s, userId |-> userId,
     conversationId |-> conversationId, participants |-> <<>>,
     scan |-> 1, last |-> 0, modified |-> 0]

\* socket.on('markRead'): verify participant
MarkRead(s, conversationId) ==
    /\ sockets[s].state = "joined"
    /\ NumCalls < MaxCalls
    /\ LET userId == sockets[s].userId
       IN calls' = Spawn(
             IF conversationId \notin ConvIds \/ ~isParticipant(conversationId, userId)
             THEN MarkReadCall(s, userId, conversationId, "done")
             ELSE [MarkReadCall(s, userId, conversationId, "updateMany") EXCEPT
                      !.participants = conversations[conversationId].participants,
                      !.last = Len(messages)])
    /\ UNCHANGED <<friends, blocked, requests, conversations, messages, emitted, sockets>>

MarkReadUpdateMany(c) ==
    /\ c.op = "markRead" /\ c.pc = "updateMany"
    /\ UpdateNext(c)
    /\ UNCHANGED <<friends, blocked, requests, conversations, emitted, sockets>>

\* the messagesRead events of one markRead
MessagesReadEvents(c) ==
    LET otherParticipants == SelectSeqBy(c.participants, (Users \cup {NoUser}) \ {c.userId})
    IN {[type |-> "messagesRead", room |-> otherParticipants[i],
         conversationId |-> c.conversationId, message |-> NoMessage,
         actor |-> c.userId, to |-> InRoom(otherParticipants[i])] :
           i \in DOMAIN otherParticipants}

\* a handler that notifies the other participant after every scan
MarkReadNotifyAlways(c) ==
    /\ c.op = "markRead" /\ c.pc = "updateMany"
    /\ ScanOver(c)
    /\ emitted' = emitted (+) SetToBag(MessagesReadEvents(c))
    /\ calls' = Step(c, [c EXCEPT !.pc = "done"])
    /\ UNCHANGED <<friends, blocked, requests, conversations, messages, sockets>>

\* the scan is over: notify the other participant if anything was modified
MarkReadNotify(c) ==
    /\ c.op = "markRead" /\ c.pc = "updateMany"
    /\ ScanOver(c)
    /\ emitted' = IF c.modified > 0
                  THEN emitted (+) SetToBag(MessagesReadEvents(c))
                  ELSE emitted
    /\ calls' = Step(c, [c EXCEPT !.pc = "done"])
    /\ UNCHANGED <<friends, blocked, requests, conversations, messages, sockets>>

\* the typing events of one handler run: one per participant other than the actor
TypingEvents(type, userId, conversationId) ==
    LET others == SelectSeqBy(conversations[conversationId].participants,
                              (Users \cup {NoUser}) \ {userId})
    IN {[type |-> type, room |-> others[i], conversationId |-> conversationId,
         message |-> NoMessage, actor |-> userId, to |-> InRoom(others[i])] :
           i \in DOMAIN others}

\* socket.on('typing') and socket.on('stopTyping'): relay to the others
Relay(s, type, conversationId) ==
    /\ sockets[s].state = "joined"
    /\ IF conversationId \notin ConvIds
       THEN UNCHANGED emitted
       ELSE LET events == TypingEvents(type, sockets[s].userId, conversationId)
            IN /\ \A e \in events : CopiesIn(e, emitted) < MaxRelays
               /\ emitted' = emitted (+) SetToBag(events)
    /\ UNCHANGED <<friends, blocked, requests, conversations, messages, calls, sockets>>

Typing(s, conversationId) == Relay(s, "userTyping", conversationId)
StopTyping(s, conversationId) == Relay(s, "userStopTyping", conversationId)

(***************************************************************************)
(* GET /api/chat/conversations (chatController.getConversations).          *)
(***************************************************************************)
\* parseInt(req.query.page) || 1 and parseInt(req.query.limit) || 20
DefaultPage == 1
DefaultPageSize == 20

\* sort({ updatedAt: -1 }) of a set of conversation ids
RECURSIVE ByUpdatedAt(_)
ByUpdatedAt(ids) ==
    IF ids = {} THEN <<>>
    ELSE LET top == CHOOSE id \in ids :
                        \A o \in ids :
                            \/ conversations[id].updatedAt > conversations[o].updatedAt
                            \/ /\ conversations[id].updatedAt = conversations[o].updatedAt
                               /\ id <= o
         IN <<top>> \o ByUpdatedAt(ids \ {top})

\* skip(skip).limit(limit)
Window(s, skip, limit) ==
    SubSeq(s, skip + 1, IF Len(s) < skip + limit THEN Len(s) ELSE skip + limit)

\* a count that ignores the reader sets
UnreadCountOfAll(conversationId, userId) ==
    Cardinality({id \in MsgIds : /\ messages[id].conversationId = conversationId
                                 /\ messages[id].sender # userId})

\* Message.countDocuments({ conversationId, sender: { $ne }, readBy: { $nin } })
UnreadCount(conversationId, userId) ==
    Cardinality({id \in MsgIds : Unread(messages[id], conversationId, userId)})

InboxCall(userId, page, limit) ==
    [op |-> "getConversations", pc |-> "count", userId |-> userId, status |-> 0,
     page |-> page, limit |-> limit, inbox |-> <<>>, next |-> 1, total |-> 0]

\* find the page of conversations and decrypt each lastMessage text
GetConversations(userId, page, limit) ==
    /\ NumCalls < MaxCalls
    /\ LET found == Window(ByUpdatedAt({id \in ConvIds : isParticipant(id, userId)}),
                           (page - 1) * limit, limit)
           decrypted ==
               [i \in DOMAIN found |->
                   [conversation |->
                        [ConversationDoc(found[i]) EXCEPT
                            !.lastMessage.text = IF @ # <<>> THEN decrypt(@) ELSE @],
                    unreadCount |-> 0]]
       IN calls' = Spawn([InboxCall(userId, page, limit) EXCEPT !.inbox = decrypted])
    /\ UNCHANGED <<friends, blocked, requests, conversations, messages, emitted, sockets>>

\* the unread count of one conversation of the page
InboxCount(c) ==
    /\ c.op = "getConversations" /\ c.pc = "count"
    /\ c.next <= Len(c.inbox)
    /\ calls' = Step(c, [c EXCEPT !.next = @ + 1,
          !.inbox[c.next].unreadCount =
              UnreadCount(c.inbox[c.next].conversation.id, c.userId)])
    /\ UNCHANGED <<friends, blocked, requests, conversations, messages, emitted, sockets>>

\* the total for the pagination block, and the response
InboxRespond(c) ==
    /\ c.op = "getConversations" /\ c.pc = "count"
    /\ c.next > Len(c.inbox)
    /\ calls' = Step(c, [c EXCEPT !.pc = "done", !.status = 200,
          !.total = Cardinality({id \in ConvIds : isParticipant(id, c.userId)})])
    /\ UNCHANGED <<friends, blocked, requests, conversations, messages, emitted, sockets>>

(***************************************************************************)
(* Friend graph (friendController).                                        *)
(***************************************************************************)
FriendCall(op, userId, target, pc, status) ==
    [op |-> op, pc |-> pc, userId |-> userId, target |-> target, status |-> status,
     receiverBlocked |-> {}]

Pull(graph, userId, v) ==
    IF userId \in Users THEN [graph EXCEPT ![userId] = @ \ {v}] ELSE graph
AddTo(graph, userId, v) ==
    IF userId \in Users THEN [graph EXCEPT ![userId] = @ \cup {v}] ELSE graph

\* POST /api/friends/request/:id : load the receiver
SendFriendRequest(senderId, receiverId) ==
    /\ NumCalls < MaxCalls
    /\ calls' = Spawn(
          IF receiverId = senderId
          THEN FriendCall("sendFriendRequest", senderId, receiverId, "done", 400)
          ELSE IF receiverId \notin Users
          THEN FriendCall("sendFriendRequest", senderId, receiverId, "done", 404)
          ELSE [FriendCall("sendFriendRequest", senderId, receiverId, "sender", 0)
                   EXCEPT !.receiverBlocked = blocked[receiverId]])
    /\ UNCHANGED <<friends, blocked, requests, conversations, messages, emitted, sockets>>

\* load the sender: already friends, or blocked either way
RequestCheckSender(c) ==
    /\ c.op = "sendFriendRequest" /\ c.pc = "sender"
    /\ calls' = Step(c,
          IF c.target \in friends[c.userId]
          THEN [c EXCEPT !.pc = "done", !.status = 400]
          ELSE IF c.userId \in c.receiverBlocked \/ c.target \in blocked[c.userId]
          THEN [c EXCEPT !.pc = "done", !.status = 400]
          ELSE [c EXCEPT !.pc = "findOne"])
    /\ UNCHANGED <<friends, blocked, requests, conversations, messages, emitted, sockets>>

\* a request in either direction is pending
RequestFindOne(c) ==
    /\ c.op = "sendFriendRequest" /\ c.pc = "findOne"
    /\ calls' = Step(c,
          IF \E r \in requests :
                \/ r.sender = c.userId /\ r.receiver = c.target
                \/ r.sender = c.target /\ r.receiver = c.userId
          THEN [c EXCEPT !.pc = "done", !.status = 400]
          ELSE [c EXCEPT !.pc = "create"])
    /\ UNCHANGED <<friends, blocked, requests, conversations, messages, emitted, sockets>>

\* FriendRequest.create under the unique index on (sender, receiver)
RequestCreate(c) ==
    /\ c.op = "sendFriendRequest" /\ c.pc = "create"
    /\ LET request == [sender |-> c.userId, receiver |-> c.target]
       IN IF request \in requests
          THEN /\ calls' = Step(c, [c EXCEPT !.pc = "done", !.status = 500])
               /\ UNCHANGED requests
          ELSE /\ requests' = requests \cup {request}
               /\ calls' = Step(c, [c EXCEPT !.pc = "done", !.status = 201])
    /\ UNCHANGED <<friends, blocked, conversations, messages, emitted, sockets>>

\* POST /api/friends/accept/:id : load the request; target is its sender
AcceptFriendRequest(userId, request) ==
    /\ NumCalls < MaxCalls
    /\ calls' = Spawn(
          IF request \notin requests
          THEN FriendCall("acceptFriendRequest", userId, request.sender, "done", 404)
          ELSE IF request.receiver # userId
          THEN FriendCall("acceptFriendRequest", userId, request.sender, "done", 401)
          ELSE FriendCall("acceptFriendRequest", userId, request.sender, "addToSender", 0))
    /\ UNCHANGED <<friends, blocked, requests, conversations, messages, emitted, sockets>>

AcceptAddToSender(c) ==
    /\ c.op = "acceptFriendRequest" /\ c.pc = "addToSender"
    /\ friends' = AddTo(friends, c.target, c.userId)
    /\ calls' = Step(c, [c EXCEPT !.pc = "addToReceiver"])
    /\ UNCHANGED <<blocked, requests, conversations, messages, emitted, sockets>>

AcceptAddToReceiver(c) ==
    /\ c.op = "acceptFriendRequest" /\ c.pc = "addToReceiver"
    /\ friends' = AddTo(friends, c.userId, c.target)
    /\ calls' = Step(c, [c EXCEPT !.pc = "deleteOne"])
    /\ UNCHANGED <<blocked, requests, conversations, messages, emitted, sockets>>

AcceptDelete(c) ==
    /\ c.op = "acceptFriendRequest" /\ c.pc = "deleteOne"
    /\ requests' = requests \ {[sender |-> c.target, receiver |-> c.userId]}
    /\ calls' = Step(c, [c EXCEPT !.pc = "done", !.status = 200])
    /\ UNCHANGED <<friends, blocked, conversations, messages, emitted, sockets>>

\* DELETE /api/friends/request/:id : load the request; its sender or its
\* receiver may remove it
CancelFriendRequest(userId, request) ==
    /\ NumCalls < MaxCalls
    /\ calls' = Spawn(
          IF request \notin requests
          THEN FriendCall("cancelFriendRequest", userId, request.sender, "done", 404)
          ELSE IF request.sender # userId /\ request.receiver # userId
          THEN FriendCall("cancelFriendRequest", userId, request.sender, "done", 401)
          ELSE [FriendCall("cancelFriendRequest", userId, request.sender, "deleteOne", 0)
                   EXCEPT !.receiverBlocked = {request.receiver}])
    /\ UNCHANGED <<friends, blocked, requests, conversations, messages, emitted, sockets>>

CancelDelete(c) ==
    /\ c.op = "cancelFriendRequest" /\ c.pc = "deleteOne"
    /\ requests' = requests \ {[sender |-> c.target, receiver |-> r] : r \in c.receiverBlocked}
    /\ calls' = Step(c, [c EXCEPT !.pc = "done", !.status = 200])
    /\ UNCHANGED <<friends, blocked, conversations, messages, emitted, sockets>>

\* DELETE /api/friends/:id
UnfriendUser(userId, friendId) ==
    /\ NumCalls < MaxCalls
    /\ friends' = Pull(friends, userId, friendId)
    /\ calls' = Spawn(FriendCall("unfriendUser", userId, friendId, "pullOther", 0))
    /\ UNCHANGED <<blocked, requests, conversations, messages, emitted, sockets>>

UnfriendPullOther(c) ==
    /\ c.op = "unfriendUser" /\ c.pc = "pullOther"
    /\ friends' = Pull(friends, c.target, c.userId)
    /\ calls' = Step(c, [c EXCEPT !.pc = "done", !.status = 200])
    /\ UNCHANGED <<blocked, requests, conversations, messages, emitted, sockets>>

\* POST /api/friends/block/:id : add to the blocked list
BlockUser(userId, blockId) ==
    /\ NumCalls < MaxCalls
    /\ blocked' = AddTo(blocked, userId, blockId)
    /\ calls' = Spawn(FriendCall("blockUser", userId, blockId, "pullOwn", 0))
    /\ UNCHANGED <<friends, requests, conversations, messages, emitted, sockets>>

BlockPullOwn(c) ==
    /\ c.op = "blockUser" /\ c.pc = "pullOwn"
    /\ friends' = Pull(friends, c.userId, c.target)
    /\ calls' = Step(c, [c EXCEPT !.pc = "pullOther"])
    /\ UNCHANGED <<blocked, requests, conversations, messages, emitted, sockets>>

BlockPullOther(c) ==
    /\ c.op = "blockUser" /\ c.pc = "pullOther"
    /\ friends' = Pull(friends, c.target, c.userId)
    /\ calls' = Step(c, [c EXCEPT !.pc = "deleteMany"])
    /\ UNCHANGED <<blocked, requests, conversations, messages, emitted, sockets>>

BlockDeleteRequests(c) ==
    /\ c.op = "blockUser" /\ c.pc = "deleteMany"
    /\ requests' = requests \ {[sender |-> c.userId, receiver |-> c.target],
                               [sender |-> c.target, receiver |-> c.userId]}
    /\ calls' = Step(c, [c EXCEPT !.pc = "done", !.status = 200])
    /\ UNCHANGED <<friends, blocked, conversations, messages, emitted, sockets>>

\* DELETE /api/friends/block/:id
UnblockUser(userId, blockId) ==
    /\ NumCalls < MaxCalls
    /\ blocked' = Pull(blocked, userId, blockId)
    /\ calls' = Spawn(FriendCall("unblockUser", userId, blockId, "done", 200))
    /\ UNCHANGED <<friends, requests, conversations, messages, emitted, sockets>>

(***************************************************************************)
(* Specifications.                                                         *)
(***************************************************************************)
\* user 1 is a mutual friend of users 2 and 3; users 2 and 3 are not friends
InitGraph ==
    /\ friends = [u \in Users |-> IF u = 1 THEN Users \ {1} ELSE {1}]
    /\ blocked = [u \in Users |-> {}]
    /\ requests = {}

InitStores ==
    /\ conversations = <<>>
    /\ messages = <<>>
    /\ calls = EmptyBag
    /\ emitted = EmptyBag

\* socket s is the joined connection of user s
JoinedSocket(u) ==
    [state |-> "joined", token |-> [kind |-> "signed", id |-> u], userId |-> u, rooms |-> {u}]

\* request texts: empty, whitespace only, padded
Texts == {<<>>, <<" ">>, <<" ", "h", "i">>}

StartNext ==
    \/ \E u \in Users, p \in Users \cup {None} : StartConversation(u, p)
    \/ \E c \in InFlight : StartFindOne(c)
    \/ \E c \in InFlight : StartCreate(c)
    \/ \E c \in InFlight : StartFindById(c)

SendSteps ==
    \/ \E c \in InFlight : SendCreate(c)
    \/ \E c \in InFlight : SendUpdate(c)
    \/ \E c \in InFlight : SendRespond(c)

ReadSteps ==
    \/ \E c \in InFlight : GetFind(c)
    \/ \E c \in InFlight : GetUpdateMany(c)
    \/ \E c \in InFlight : GetRespond(c)
    \/ \E c \in InFlight : MarkReadUpdateMany(c)
    \/ \E c \in InFlight : MarkReadNotify(c)

InboxNext ==
    \/ \E u \in Users : GetConversations(u, DefaultPage, DefaultPageSize)
    \/ \E c \in InFlight : InboxCount(c)
    \/ \E c \in InFlight : InboxRespond(c)

(* Starting conversations on an empty store.                              *)
Init ==
    /\ InitGraph
    /\ InitStores
    /\ sockets = [s \in Sockets |-> JoinedSocket(s)]

StartOnlyNext ==
    \/ StartNext
    \/ \E c \in InFlight : Return(c)

SpecStart == Init /\ [][StartOnlyNext]_vars

(* Starting conversations on an empty store whose unique index was not   *)
(* built.                                                                 *)
StartUnindexedNext ==
    \/ \E u \in Users, p \in Users \cup {None} :
          Len(conversations) < MaxConvs /\ StartConversation(u, p)
    \/ \E c \in InFlight : StartFindOne(c)
    \/ \E c \in InFlight : StartCreateUnindexed(c)
    \/ \E c \in InFlight : StartFindById(c)
    \/ \E c \in InFlight : Return(c)

SpecStartUnindexed == Init /\ [][StartUnindexedNext]_vars

(* The state in which the conversation of users 1 and 2 is stored.        *)
InitChat ==
    /\ InitGraph
    /\ conversations = <<[participants |-> <<1, 2>>, lastMessage |-> NoLastMessage,
                          updatedAt |-> 1]>>
    /\ messages = <<>>
    /\ calls = EmptyBag
    /\ emitted = EmptyBag
    /\ sockets = [s \in Sockets |-> JoinedSocket(s)]

(* The chat service over a fixed friend graph: conversations are started, *)
(* messages sent and inboxes listed.                                      *)
Next ==
    \/ StartNext
    \/ \E u \in Users, id \in 1..2, text \in Texts : SendMessage(u, id, text)
    \/ SendSteps
    \/ InboxNext
    \/ \E c \in InFlight : Return(c)

Spec == Init /\ [][Next]_vars

(* Read receipts: sends by the two participants, history fetches and      *)
(* markRead events by every user.                                         *)
ReadNext ==
    \/ \E u \in {1, 2} : SendMessage(u, 1, <<" ", "h", "i">>)
    \/ SendSteps
    \/ \E u \in Users : GetMessages(u, 1, None, DefaultLimit)
    \/ \E s \in Sockets : MarkRead(s, 1)
    \/ ReadSteps
    \/ \E c \in InFlight : Return(c)

SpecRead == InitChat /\ [][ReadNext]_vars

(* The relationship gate of startConversation: users 1 and 2 change      *)
(* their friendship while they start their conversation.                  *)
GateNext ==
    \/ \E u, v \in {1, 2} : u # v /\ SendFriendRequest(u, v)
    \/ \E c \in InFlight : RequestCheckSender(c)
    \/ \E c \in InFlight : RequestFindOne(c)
    \/ \E c \in InFlight : RequestCreate(c)
    \/ \E u, v \in {1, 2} : u # v /\ AcceptFriendRequest(u, [sender |-> v, receiver |-> u])
    \/ \E c \in InFlight : AcceptAddToSender(c)
    \/ \E c \in InFlight : AcceptAddToReceiver(c)
    \/ \E c \in InFlight : AcceptDelete(c)
    \/ \E u, v, w \in {1, 2} : v # w /\ CancelFriendRequest(u, [sender |-> v, receiver |-> w])
    \/ \E c \in InFlight : CancelDelete(c)
    \/ \E u, v \in {1, 2} : u # v /\ UnfriendUser(u, v)
    \/ \E c \in InFlight : UnfriendPullOther(c)
    \/ \E u, v \in {1, 2} : u # v /\ BlockUser(u, v)
    \/ \E c \in InFlight : BlockPullOwn(c)
    \/ \E c \in InFlight : BlockPullOther(c)
    \/ \E c \in InFlight : BlockDeleteRequests(c)
    \/ \E u, v \in {1, 2} : u # v /\ UnblockUser(u, v)
    \/ \E u, v \in {1, 2} : u # v /\ StartConversation(u, v)
    \/ \E c \in InFlight : StartFindOne(c)
    \/ \E c \in InFlight : StartCreate(c)
    \/ \E c \in InFlight : StartFindById(c)
    \/ \E c \in InFlight : Return(c)

SpecGate == Init /\ [][GateNext]_vars

(* Sending after the friendship has ended: users 1 and 2, whose           *)
(* conversation is stored, unfriend or block each other and send.         *)
SendGateNext ==
    \/ \E u, v \in {1, 2} : u # v /\ UnfriendUser(u, v)
    \/ \E c \in InFlight : UnfriendPullOther(c)
    \/ \E u, v \in {1, 2} : u # v /\ BlockUser(u, v)
    \/ \E c \in InFlight : BlockPullOwn(c)
    \/ \E c \in InFlight : BlockPullOther(c)
    \/ \E c \in InFlight : BlockDeleteRequests(c)
    \/ \E u \in {1, 2} : SendMessage(u, 1, <<" ", "h", "i">>)
    \/ SendSteps
    \/ \E c \in InFlight : Return(c)

SpecSendGate == InitChat /\ [][SendGateNext]_vars

(* The realtime gateway: connections are opened with any credential       *)
(* while the conversation of users 1 and 2 holds one message of user 1.   *)
FirstMessage ==
    [conversationId |-> 1, sender |-> 1,
     text |-> encrypt(<<"h", "i">>, FreshIV(1), TRUE),
     type |-> "text", readBy |-> <<1>>, createdAt |-> 1]

InitSocket ==
    /\ InitGraph
    /\ messages = <<FirstMessage>>
    /\ conversations =
          <<[participants |-> <<1, 2>>,
             lastMessage |-> [text |-> FirstMessage.text, sender |-> 1, createdAt |-> 1],
             updatedAt |-> 2]>>
    /\ calls = EmptyBag
    /\ emitted = SetToBag({[type |-> "newMessage", room |-> 2, conversationId |-> 1,
                            message |-> [id |-> 1, conversationId |-> 1, sender |-> 1,
                                         text |-> <<"h", "i">>, type |-> "text",
                                         readBy |-> <<1>>, createdAt |-> 1],
                            actor |-> 1, to |-> {}]})
    /\ sockets = [s \in Sockets |-> IdleSocket]

SocketNext ==
    \/ \E s \in {1, 2}, token \in Tokens : Connect(s, token)
    \/ \E s \in Sockets : Authenticate(s)
    \/ \E s \in Sockets : OnConnection(s)
    \/ \E s \in Sockets : Disconnect(s)
    \/ \E s \in Sockets : MarkRead(s, 1)
    \/ \E c \in InFlight : MarkReadUpdateMany(c)
    \/ \E c \in InFlight : MarkReadNotify(c)
    \/ \E s \in Sockets : Typing(s, 1)
    \/ \E s \in Sockets : StopTyping(s, 1)
    \/ \E c \in InFlight : Return(c)

SpecSocket == InitSocket /\ [][SocketNext]_vars

(* The inbox of the two participants while they send and fetch history.   *)
InboxReadNext ==
    \/ \E u \in {1, 2} : SendMessage(u, 1, <<" ", "h", "i">>)
    \/ SendSteps
    \/ \E u \in {1, 2} : GetMessages(u, 1, None, DefaultLimit)
    \/ \E c \in InFlight : GetFind(c)
    \/ \E c \in InFlight : GetUpdateMany(c)
    \/ \E c \in InFlight : GetRespond(c)
    \/ InboxNext
    \/ \E c \in InFlight : Return(c)

SpecInbox == InitChat /\ [][InboxReadNext]_vars

(* Paging through a stored conversation: the log holds up to MaxLog       *)
(* messages of user 1 whose creation times do not decrease, user 2 pages  *)
(* back through it and nothing is sent meanwhile.                         *)
Logs ==
    UNION {{log \in [1..n -> [conversationId : {1}, sender : {1},
                               text : {encrypt(<<"h", "i">>, FreshIV(1), TRUE)},
                               type : {"text"}, readBy : {<<1>>},
                               createdAt : 1..MaxStamp]] :
               \A i, j \in 1..n : i < j => log[i].createdAt <= log[j].createdAt} :
           n \in 0..MaxLog}

InitPages ==
    /\ InitGraph
    /\ conversations = <<[participants |-> <<1, 2>>, lastMessage |-> NoLastMessage,
                          updatedAt |-> 1]>>
    /\ messages \in Logs
    /\ calls = EmptyBag
    /\ emitted = EmptyBag
    /\ sockets = [s \in Sockets |-> JoinedSocket(s)]

PagesNext ==
    \/ \E limit \in 1..MaxLimit : NumCalls = 0 /\ GetMessages(2, 1, None, limit)
    \/ \E c \in InFlight : GetCursor(c)
    \/ \E c \in InFlight : GetFind(c)
    \/ \E c \in InFlight : GetUpdateMany(c)
    \/ \E c \in InFlight : GetRespond(c)
    \/ \E c \in InFlight : FetchNext(c)

SpecPages == InitPages /\ [][PagesNext]_vars

(* History fetches by every user, of the stored conversation and of one   *)
(* that does not exist, while the first message is unread.                *)
InitUnread ==
    /\ InitGraph
    /\ messages = <<FirstMessage>>
    /\ conversations =
          <<[participants |-> <<1, 2>>,
             lastMessage |-> [text |-> FirstMessage.text, sender |-> 1, createdAt |-> 1],
             updatedAt |-> 2]>>
    /\ calls = EmptyBag
    /\ emitted = EmptyBag
    /\ sockets = [s \in Sockets |-> JoinedSocket(s)]

FetchOnlyNext ==
    \/ \E u \in Users, id \in 1..2 : GetMessages(u, id, None, DefaultLimit)
    \/ \E c \in InFlight : GetFind(c)
    \/ \E c \in InFlight : GetUpdateMany(c)
    \/ \E c \in InFlight : GetRespond(c)
    \/ \E c \in InFlight : Return(c)

SpecFetch == InitUnread /\ [][FetchOnlyNext]_vars

(* The codec alone: a text of up to MaxText characters, with or without   *)
(* the prefix of the wire format in front, is sealed and opened.          *)
CodecTexts ==
    LET bodies == UNION {[1..n -> {"h", ":"}] : n \in 0..MaxText}
    IN bodies \cup {EncPrefix \o b : b \in bodies}

InitCodec ==
    /\ InitGraph
    /\ conversations = <<>>
    /\ messages = <<>>
    /\ calls \in {SetToBag({CodecCall(text)}) : text \in CodecTexts}
    /\ emitted = EmptyBag
    /\ sockets = [s \in Sockets |-> IdleSocket]

CodecNext ==
    \/ \E c \in InFlight : Seal(c)
    \/ \E c \in InFlight : Open(c)

SpecCodec == InitCodec /\ [][CodecNext]_vars

(* Two conversations of user 1, with user 2 and with user 3, as a store   *)
(* without the unique index holds them; the second holds a message of     *)
(* user 3.  Every user starts conversations, sends, lists the inbox and   *)
(* fetches the history of either conversation with any cursor.            *)
SecondMessage ==
    [conversationId |-> 2, sender |-> 3,
     text |-> encrypt(<<"y", "o">>, FreshIV(1), TRUE),
     type |-> "text", readBy |-> <<3>>, createdAt |-> 1]

InitTwo ==
    /\ InitGraph
    /\ messages = <<SecondMessage>>
    /\ conversations =
          <<[participants |-> <<1, 2>>, lastMessage |-> NoLastMessage, updatedAt |-> 1],
            [participants |-> <<1, 3>>,
             lastMessage |-> [text |-> SecondMessage.text, sender |-> 3, createdAt |-> 1],
             updatedAt |-> 2]>>
    /\ calls = EmptyBag
    /\ emitted = EmptyBag
    /\ sockets = [s \in Sockets |-> JoinedSocket(s)]

\* what is written in a conversation
TextIn(conversationId) == IF conversationId = 1 THEN <<"h", "i">> ELSE <<"y", "o">>

PrivacyNext ==
    \/ \E u \in Users, id \in 1..2, before \in 0..MaxMsgs :
          GetMessages(u, id, before, DefaultLimit)
    \/ \E c \in InFlight : GetCursor(c)
    \/ \E c \in InFlight : GetFind(c)
    \/ \E c \in InFlight : GetUpdateMany(c)
    \/ \E c \in InFlight : GetRespond(c)
    \/ \E u \in Users, id \in 1..2 : SendMessage(u, id, TextIn(id))
    \/ SendSteps
    \/ InboxNext
    \/ \E u, p \in Users : StartConversation(u, p)
    \/ \E c \in InFlight : StartFindOne(c)
    \/ \E c \in InFlight : Return(c)

SpecPrivacy == InitTwo /\ [][PrivacyNext]_vars

(* Typing indicators: the two participants are connected, user 3 opens   *)
(* and closes a connection, and every connection sends typing and         *)
(* stopTyping events that name the conversation of users 1 and 2 or one   *)
(* that does not exist.                                                   *)
InitTyping ==
    /\ InitGraph
    /\ conversations = <<[participants |-> <<1, 2>>, lastMessage |-> NoLastMessage,
                          updatedAt |-> 1]>>
    /\ messages = <<>>
    /\ calls = EmptyBag
    /\ emitted = EmptyBag
    /\ sockets = [s \in Sockets |-> IF s = 3 THEN IdleSocket ELSE JoinedSocket(s)]

TypingNext ==
    \/ Connect(3, [kind |-> "signed", id |-> 3])
    \/ Authenticate(3)
    \/ OnConnection(3)
    \/ Disconnect(3)
    \/ \E s \in Sockets, id \in 1..2 : Typing(s, id)
    \/ \E s \in Sockets, id \in 1..2 : StopTyping(s, id)

SpecTyping == InitTyping /\ [][TypingNext]_vars

(* History fetches with any cursor: user 2 fetches a stored log with no   *)
(* cursor, with the id of a stored message, or with an id that names no   *)
(* message.                                                               *)
CursorNext ==
    \/ \E before \in 0..(MaxLog + 1), limit \in 1..MaxLimit :
          NumCalls = 0 /\ GetMessages(2, 1, before, limit)
    \/ \E c \in InFlight : GetCursor(c)
    \/ \E c \in InFlight : GetFind(c)
    \/ \E c \in InFlight : GetUpdateMany(c)
    \/ \E c \in InFlight : GetRespond(c)
    \/ \E c \in InFlight : Return(c)

SpecCursor == InitPages /\ [][CursorNext]_vars

(* Sending while the conversation store may reject the snapshot update;   *)
(* user 2 fetches the history.                                            *)
FaultNext ==
    \/ \E u \in {1, 2} : SendMessage(u, 1, <<" ", "h", "i">>)
    \/ SendSteps
    \/ \E c \in InFlight : SendUpdateFails(c)
    \/ GetMessages(2, 1, None, DefaultLimit)
    \/ \E c \in InFlight : GetFind(c)
    \/ \E c \in InFlight : GetUpdateMany(c)
    \/ \E c \in InFlight : GetRespond(c)
    \/ \E c \in InFlight : Return(c)

SpecFault == InitChat /\ [][FaultNext]_vars

(* Sending to a peer who is offline: user 1 is connected and sends, user  *)
(* 2 opens and closes a connection and fetches the history.               *)
InitOffline ==
    /\ InitGraph
    /\ conversations = <<[participants |-> <<1, 2>>, lastMessage |-> NoLastMessage,
                          updatedAt |-> 1]>>
    /\ messages = <<>>
    /\ calls = EmptyBag
    /\ emitted = EmptyBag
    /\ sockets = [s \in Sockets |-> IF s = 1 THEN JoinedSocket(1) ELSE IdleSocket]

OfflineNext ==
    \/ SendMessage(1, 1, <<" ", "h", "i">>)
    \/ SendSteps
    \/ Connect(2, [kind |-> "signed", id |-> 2])
    \/ Authenticate(2)
    \/ OnConnection(2)
    \/ Disconnect(2)
    \/ GetMessages(2, 1, None, DefaultLimit)
    \/ \E c \in InFlight : GetFind(c)
    \/ \E c \in InFlight : GetUpdateMany(c)
    \/ \E c \in InFlight : GetRespond(c)
    \/ \E c \in InFlight : Return(c)

SpecOffline == InitOffline /\ [][OfflineNext]_vars

(* Reading stored history: the conversation of users 1 and 2 holds two    *)
(* messages whose bodies are of every stored kind: plaintext written       *)
(* before encryption was introduced, sealed in the current format, sealed  *)
(* in the legacy format, and sealed bodies whose tag was overwritten at    *)
(* rest.  The participants fetch the history.                              *)
PlainBodies == UNION {[1..n -> {"h", ":"}] : n \in 1..MaxText}

StoredBodies ==
    {[kind |-> "plain", plain |-> t, text |-> t] : t \in PlainBodies}
    \cup {[kind |-> "sealed", plain |-> <<"h", "i">>,
           text |-> encrypt(<<"h", "i">>, "iv1", TRUE)],
          [kind |-> "legacy", plain |-> <<"y", "o">>,
           text |-> LegacySealed(<<"y", "o">>, "iv2")],
          [kind |-> "corrupt", plain |-> <<"h", "i">>,
           text |-> CorruptedAt(encrypt(<<"h", "i">>, "iv3", TRUE), 6)],
          [kind |-> "corrupt", plain |-> <<"y", "o">>,
           text |-> CorruptedAt(LegacySealed(<<"y", "o">>, "iv4"), 3)]}

InitHistory ==
    /\ InitGraph
    /\ conversations = <<[participants |-> <<1, 2>>, lastMessage |-> NoLastMessage,
                          updatedAt |-> 1]>>
    /\ \E a, b \in StoredBodies :
          messages = <<[conversationId |-> 1, sender |-> 1, text |-> a.text,
                        type |-> "text", readBy |-> <<1>>, createdAt |-> 1],
                       [conversationId |-> 1, sender |-> 1, text |-> b.text,
                        type |-> "text", readBy |-> <<1>>, createdAt |-> 2]>>
    /\ calls = EmptyBag
    /\ emitted = EmptyBag
    /\ sockets = [s \in Sockets |-> JoinedSocket(s)]

HistoryNext ==
    \/ \E u \in {1, 2} : GetMessages(u, 1, None, DefaultLimit)
    \/ \E c \in InFlight : GetFind(c)
    \/ \E c \in InFlight : GetUpdateMany(c)
    \/ \E c \in InFlight : GetRespond(c)
    \/ \E c \in InFlight : Return(c)

SpecHistory == InitHistory /\ [][HistoryNext]_vars

(***************************************************************************)
(* Properties.                                                             *)
(***************************************************************************)
\* the Relationship Gate of the specification: mutual friends, no block
CanMessage(a, b) ==
    /\ b \in friends[a] /\ a \in friends[b]
    /\ b \notin blocked[a] /\ a \notin blocked[b]

StoredFor(a, b) == {id \in ConvIds : Range(conversations[id].participants) = {a, b}}

StartCallsFor(a, b) ==
    {c \in InFlight : c.op = "startConversation" /\ {c.userId, c.participantId} = {a, b}}

\* C1: concurrent startConversation calls for one eligible pair never store
\* more than one conversation of the pair, and exactly one is stored once
\* all of them have finished.
C1_ExactlyOnePerPair ==
    \A a, b \in Users :
        a < b =>
            /\ Cardinality(StoredFor(a, b)) <= 1
            /\ (/\ CanMessage(a, b)
                /\ StartCallsFor(a, b) # {}
                /\ \A c \in StartCallsFor(a, b) : c.pc = "done")
               => Cardinality(StoredFor(a, b)) = 1

\* C2: a startConversation that finds the pair's conversation stored when it
\* finishes, having lost the creation race or not, answers 200 with that
\* conversation: the duplicate is never an error for the caller.
C2_LoserReadsWinner ==
    \A c \in InFlight :
        (/\ c.op = "startConversation" /\ c.pc = "done"
         /\ c.status \notin {400, 403}
         /\ StoredFor(c.userId, c.participantId) # {})
        => /\ c.status = 200
           /\ c.conversation.id \in StoredFor(c.userId, c.participantId)

\* the startConversation calls that this step lets past the gate
Admitted ==
    {c \in BagToSet(calls') :
        /\ c.op = "startConversation" /\ c.pc = "findOne"
        /\ CopiesIn(c, calls') > CopiesIn(c, calls)}

\* the startConversation calls that this step refuses with a permission failure
Refused ==
    {c \in BagToSet(calls') :
        /\ c.op = "startConversation" /\ c.pc = "done" /\ c.status = 403
        /\ CopiesIn(c, calls') > CopiesIn(c, calls)}

\* C3: startConversation goes on to find or create the conversation only if,
\* when it checks, the caller and the peer are mutual friends and neither has
\* blocked the other; in every other case it ends in a permission failure.
C3_GateIsMutual ==
    [][/\ \A c \in Admitted : CanMessage(c.userId, c.participantId)
       /\ \A c \in Refused : ~CanMessage(c.userId, c.participantId)]_vars

\* the other participant of a conversation
Peer(conversationId, userId) ==
    CHOOSE p \in Range(conversations[conversationId].participants) :
        p # userId \/ Range(conversations[conversationId].participants) = {userId}

\* C4: a message is appended only while its sender and the other participant
\* of the conversation pass the Relationship Gate.
C4_SendPassesGate ==
    [][Len(messages') > Len(messages) =>
          LET m == messages'[Len(messages')]
          IN CanMessage(m.sender, Peer(m.conversationId, m.sender))]_vars

\* C5: the sender of every stored message is one of the two participants of
\* the conversation that owns the message.
C5_SenderIsParticipant ==
    \A id \in MsgIds :
        /\ messages[id].conversationId \in ConvIds
        /\ Len(conversations[messages[id].conversationId].participants) = 2
        /\ messages[id].sender \in
              Range(conversations[messages[id].conversationId].participants)

\* a message is stored and the send of a user outside the conversation has
\* been refused
C5_Witness ==
    /\ messages # <<>>
    /\ \E c \in InFlight :
          /\ c.op = "sendMessage" /\ c.pc = "done" /\ c.status = 403
          /\ c.conversationId \in ConvIds
          /\ c.userId \notin Range(conversations[c.conversationId].participants)

\* the wire format of the codec: the prefix, a nonce, the tag of the
\* ciphertext under that nonce, the ciphertext
Sealed(t) ==
    /\ StartsWith(t, EncPrefix)
    /\ Len(t) >= 6
    /\ Authentic(t[5], t[6], SubSeq(t, 7, Len(t)))

\* the message texts and last-message texts of the responses sent and of the
\* newMessage events emitted
OutboundTexts ==
    {c.conversation.lastMessage.text :
        c \in {d \in InFlight : d.op = "startConversation" /\ d.pc = "done"
                                   /\ d.status = 200}}
    \cup UNION {{c.inbox[i].conversation.lastMessage.text : i \in DOMAIN c.inbox} :
        c \in {d \in InFlight : d.op = "getConversations" /\ d.pc = "done"}}
    \cup UNION {{c.page[i].text : i \in DOMAIN c.page} :
        c \in {d \in InFlight : d.op = "getMessages" /\ d.pc = "done"
                                   /\ d.status = 200}}
    \cup {c.message.text :
        c \in {d \in InFlight : d.op = "sendMessage" /\ d.pc = "done"
                                   /\ d.status = 201}}
    \cup {e.message.text : e \in {d \in BagToSet(emitted) : d.type = "newMessage"}}

\* C6: no response and no newMessage event carries a sealed text: every
\* message text and last-message text that goes out is the opened plaintext.
C6_NoSealedOutbound == \A t \in OutboundTexts : ~Sealed(t)

\* the newMessage events emitted
NewMessages == {e \in BagToSet(emitted) : e.type = "newMessage"}

\* the sends that have stored their message and not yet emitted its event
Unannounced ==
    {c \in InFlight : c.op = "sendMessage" /\ c.pc \in {"update", "findById"}}

\* C7: every newMessage event is emitted once, for a stored message, to the
\* channel of the participant of its conversation who is not the sender; a
\* send that has answered 201 has emitted exactly one, and there is no event
\* besides those of the messages whose sends got that far, so a rejected send
\* emits none.
C7_NewMessageOnceToPeer ==
    /\ \A e \in NewMessages :
          /\ CopiesIn(e, emitted) = 1
          /\ e.message.id \in MsgIds
          /\ e.conversationId = messages[e.message.id].conversationId
          /\ e.actor = messages[e.message.id].sender
          /\ e.room # messages[e.message.id].sender
          /\ e.room \in Range(conversations[e.conversationId].participants)
    /\ \A id \in MsgIds :
          Cardinality({e \in NewMessages : e.message.id = id}) =
              IF \E c \in Unannounced : c.message.id = id THEN 0 ELSE 1
    /\ \A c \in InFlight :
          (c.op = "sendMessage" /\ c.pc = "done") =>
              Cardinality({e \in NewMessages : e.message.id = c.message.id}) =
                  IF c.status = 201 THEN 1 ELSE 0

\* a send has answered 201 with its event emitted to the peer, and another
\* send has been rejected
C7_Witness ==
    /\ \E c \in InFlight :
          /\ c.op = "sendMessage" /\ c.pc = "done" /\ c.status = 201
          /\ \E e \in NewMessages : e.message.id = c.message.id /\ e.room # c.userId
    /\ \E c \in InFlight :
          /\ c.op = "sendMessage" /\ c.pc = "done" /\ c.status \in {400, 403, 404}

\* the connections that have been accepted
Accepted == {s \in Sockets : sockets[s].state \in {"authenticated", "joined", "disconnected"}}

\* the events relayed on behalf of a connection
Relayed == {e \in BagToSet(emitted) : e.type \in {"messagesRead", "userTyping", "userStopTyping"}}

\* C8: a connection is accepted only with a signed credential of an existing
\* user and is bound to that user; a connection with a missing or invalid
\* credential, or one of no user, has no identity, is in no channel and has no
\* handler run; a joined connection is in the channel of its identity and in
\* no other; every handler run and every relayed event carries the identity
\* of an accepted connection.
C8_OnlyVerifiedJoin ==
    /\ \A s \in Accepted :
          /\ sockets[s].token.kind = "signed"
          /\ sockets[s].token.id \in Users
          /\ sockets[s].userId = sockets[s].token.id
    /\ \A s \in Sockets \ Accepted :
          /\ sockets[s].userId = None
          /\ sockets[s].rooms = {}
          /\ \A c \in InFlight : c.op = "markRead" => c.socket # s
    /\ \A s \in Sockets :
          sockets[s].rooms = IF sockets[s].state = "joined" THEN {sockets[s].userId} ELSE {}
    /\ \A c \in InFlight :
          c.op = "markRead" =>
              /\ sockets[c.socket].state \in {"joined", "disconnected"}
              /\ c.userId = sockets[c.socket].token.id
    /\ \A e \in Relayed :
          \E s \in Accepted :
              /\ sockets[s].state \in {"joined", "disconnected"}
              /\ e.actor = sockets[s].token.id

\* one connection has been refused, another has joined the channel of its
\* user and has relayed an event
C8_Witness ==
    /\ \E s \in Sockets : sockets[s].state = "refused" /\ sockets[s].token.kind = "signed"
    /\ \E s \in Sockets :
          /\ sockets[s].state = "joined"
          /\ \E e \in Relayed : e.actor = sockets[s].userId

\* C9: across every step, each stored message stays stored with its
\* conversation, sender, body, kind and creation time unchanged, and its
\* reader set after the step is a superset of its reader set before.
C9_MessagesOnlyGainReaders ==
    [][\A id \in MsgIds :
          /\ id \in DOMAIN messages'
          /\ messages'[id].conversationId = messages[id].conversationId
          /\ messages'[id].sender = messages[id].sender
          /\ messages'[id].text = messages[id].text
          /\ messages'[id].type = messages[id].type
          /\ messages'[id].createdAt = messages[id].createdAt
          /\ Range(messages[id].readBy) \subseteq Range(messages'[id].readBy)]_vars

\* the read-receipt runs of one reader on one conversation
Runs(conversationId, userId) ==
    {c \in InFlight : /\ c.op \in {"markRead", "getMessages"}
                      /\ c.pc \in {"updateMany", "done"}
                      /\ c.conversationId = conversationId
                      /\ c.userId = userId}

\* a reader has been added by a history fetch or a markRead that is done, and
\* a second message is stored
C9_Witness ==
    /\ Len(messages) = 2
    /\ \E id \in MsgIds : Len(messages[id].readBy) = 2
    /\ \E c \in InFlight :
          /\ c.op \in {"markRead", "getMessages"} /\ c.pc = "done"
          /\ c.modified > 0

\* the messages of a conversation that qualify for a reader's receipt
Qualifying(conversationId, userId) ==
    {id \in MsgIds : /\ messages[id].conversationId = conversationId
                     /\ messages[id].sender # userId}

\* the number of messages the runs in a set report as newly marked
RECURSIVE Reported(_)
Reported(runs) ==
    IF runs = {} THEN 0
    ELSE LET c == CHOOSE x \in runs : TRUE
         IN c.modified * CopiesIn(c, calls) + Reported(runs \ {c})

\* C10: marking as read is idempotent.  A step changes a reader set only by
\* adding a reader who is not in it, so a run over messages that are already
\* marked changes nothing and reports zero; however runs of one reader
\* interleave, the reader is in every reader set once, every qualifying
\* message a run has passed, and every message that qualified when a finished
\* run began, holds the reader, and the runs together report no message twice.
C10_MarkReadIdempotent ==
    /\ [](/\ \A id \in MsgIds :
                /\ Cardinality(Range(messages[id].readBy)) = Len(messages[id].readBy)
                /\ messages[id].sender \in Range(messages[id].readBy)
                /\ Range(messages[id].readBy) \subseteq
                      Range(conversations[messages[id].conversationId].participants)
          /\ \A c \in InFlight :
                (c.op \in {"markRead", "getMessages"} /\ c.pc \in {"updateMany", "done"}) =>
                    /\ \A id \in Qualifying(c.conversationId, c.userId) :
                          (id < c.scan \/ (c.pc = "done" /\ id <= c.last)) =>
                              c.userId \in Range(messages[id].readBy)
                    /\ Reported(Runs(c.conversationId, c.userId)) <=
                          Cardinality({id \in Qualifying(c.conversationId, c.userId) :
                                          c.userId \in Range(messages[id].readBy)}))
    /\ [][\A id \in MsgIds :
             messages'[id].readBy # messages[id].readBy =>
                 \E u \in Users :
                     /\ u \notin Range(messages[id].readBy)
                     /\ messages'[id].readBy = Append(messages[id].readBy, u)
                     /\ \E c \in InFlight :
                           /\ c.op \in {"markRead", "getMessages"} /\ c.userId = u
                           /\ calls' = Step(c, [c EXCEPT !.scan = id + 1,
                                                         !.modified = @ + 1])]_vars

\* two runs of reader 2 on the conversation, a markRead and a history fetch,
\* are both done: one has marked the message of user 1, the other reports zero
C10_Witness ==
    \E c, d \in InFlight :
        /\ c.op = "markRead" /\ d.op = "getMessages"
        /\ c.pc = "done" /\ d.pc = "done" /\ d.status = 200
        /\ c.userId = 2 /\ d.userId = 2
        /\ c.modified + d.modified = 1
        /\ \E id \in MsgIds : messages[id].readBy = <<1, 2>>

\* the messagesRead events emitted
ReadEvents == {e \in BagToSet(emitted) : e.type = "messagesRead"}

\* the messagesRead events this step emits
ReadEventsAdded ==
    {e \in BagToSet(emitted') :
        e.type = "messagesRead" /\ CopiesIn(e, emitted') > CopiesIn(e, emitted)}

\* the markRead handler runs this step ends
MarkReadsEnded ==
    {c \in BagToSet(calls') :
        /\ c.op = "markRead" /\ c.pc = "done"
        /\ CopiesIn(c, calls') > CopiesIn(c, calls)}

\* C11: a messagesRead event is emitted only by the end of a markRead run
\* that added its reader to a reader set: it names that reader and goes to the
\* channel of the other participant, never to the reader's own; a run that
\* changed nothing, or one of a non-participant, emits none.
C11_ReadEventOnlyOnChange ==
    /\ [](\A e \in ReadEvents :
             /\ e.conversationId \in ConvIds
             /\ e.room # e.actor
             /\ {e.room, e.actor} = Range(conversations[e.conversationId].participants)
             /\ \E id \in Qualifying(e.conversationId, e.actor) :
                   e.actor \in Range(messages[id].readBy))
    /\ [][/\ \A e \in ReadEventsAdded :
                /\ CopiesIn(e, emitted') = CopiesIn(e, emitted) + 1
                /\ \E c \in MarkReadsEnded :
                      /\ c.modified > 0
                      /\ e.actor = c.userId
                      /\ e.conversationId = c.conversationId
          /\ \A c \in MarkReadsEnded :
                Cardinality(ReadEventsAdded) =
                    IF c.modified > 0 /\ c.conversationId \in ConvIds
                          /\ isParticipant(c.conversationId, c.userId)
                    THEN 1 ELSE 0]_vars

\* one markRead of reader 2 has marked a message and its event is out; a
\* later markRead of the same reader and one of a non-participant are done
\* with nothing marked, and there is still one event
C11_Witness ==
    /\ \E e \in ReadEvents : e.actor = 2 /\ e.room = 1 /\ CopiesIn(e, emitted) = 1
    /\ Cardinality(ReadEvents) = 1
    /\ \E c, d \in InFlight :
          /\ c.op = "markRead" /\ c.pc = "done" /\ c.userId = 2 /\ c.modified = 0
          /\ d.op = "markRead" /\ d.pc = "done" /\ d.userId = 3

\* C12: when a history fetch has added its caller to the reader set of a
\* message of the other participant, a messagesRead event that names the
\* caller as reader has been emitted to the other participant's channel.
C12_FetchNotifiesSender ==
    \A c \in InFlight :
        (c.op = "getMessages" /\ c.pc = "done" /\ c.status = 200 /\ c.modified > 0) =>
            \E e \in ReadEvents :
                /\ e.actor = c.userId
                /\ e.conversationId = c.conversationId
                /\ e.room = Peer(c.conversationId, c.userId)

\* the number of messages of a conversation, in a message log, that were not
\* sent by a user and do not have the user in their reader set
UnreadIn(log, conversationId, userId) ==
    Cardinality({id \in DOMAIN log : /\ log[id].conversationId = conversationId
                                      /\ log[id].sender # userId
                                      /\ userId \notin Range(log[id].readBy)})

\* the inbox entries counted this step
CountedNow ==
    {c \in BagToSet(calls') :
        /\ c.op = "getConversations" /\ c.pc = "count" /\ c.next > 1
        /\ CopiesIn(c, calls') > CopiesIn(c, calls)
        /\ \E b \in InFlight : b.op = "getConversations" /\ b.next = c.next - 1
                                  /\ b.userId = c.userId /\ b.pc = "count"}

\* the history fetches that answer this step
FetchesEnded ==
    {c \in BagToSet(calls') :
        /\ c.op = "getMessages" /\ c.pc = "done" /\ c.status = 200
        /\ CopiesIn(c, calls') > CopiesIn(c, calls)}

\* C13: the unread count the inbox reports to a user for a conversation is
\* the number of stored messages of the conversation not sent by the user and
\* without the user in their reader set; a send adds one to the count of the
\* other participant and nothing to the sender's; when a history fetch
\* answers, no message that was stored when its marking began counts as
\* unread for its caller.
C13_UnreadCount ==
    [][/\ \A c \in CountedNow :
             c.inbox[c.next - 1].unreadCount =
                 UnreadIn(messages, c.inbox[c.next - 1].conversation.id, c.userId)
       /\ Len(messages') > Len(messages) =>
             LET m == messages'[Len(messages')]
             IN \A u \in Range(conversations[m.conversationId].participants) :
                   UnreadIn(messages', m.conversationId, u) =
                       UnreadIn(messages, m.conversationId, u)
                           + (IF u = m.sender THEN 0 ELSE 1)
       /\ \A c \in FetchesEnded :
             UnreadIn(SubSeq(messages', 1, c.last), c.conversationId, c.userId) = 0]_vars

\* the inbox of user 2 has reported one unread message, and a history fetch
\* of user 2 that marked it has answered
C13_Witness ==
    /\ \E c \in InFlight :
          /\ c.op = "getConversations" /\ c.pc = "done" /\ c.userId = 2
          /\ Len(c.inbox) = 1 /\ c.inbox[1].unreadCount = 1
    /\ \E c \in InFlight :
          /\ c.op = "getMessages" /\ c.pc = "done" /\ c.userId = 2 /\ c.modified = 1
    /\ UnreadIn(messages, 1, 2) = 0

\* the message ids a traversal has received so far, oldest first
Received(c) == PageIds(c.page) \o c.seen

\* C14: a traversal that starts without cursor and follows the returned
\* cursor while hasMore is true receives no message twice, and when it ends
\* (hasMore false) it has received every message of the conversation.
C14_PagesCoverLog ==
    \A c \in InFlight :
        (c.op = "getMessages" /\ c.pc = "done" /\ c.status = 200) =>
            /\ Cardinality(Range(Received(c))) = Len(Received(c))
            /\ ~c.hasMore =>
                  Range(Received(c)) =
                      {id \in MsgIds : messages[id].conversationId = c.conversationId}

\* the messages a fetch may return: those of the conversation, created
\* strictly before the cursor message when a cursor is given
Eligible(c) ==
    {id \in MsgIds :
        /\ messages[id].conversationId = c.conversationId
        /\ c.before \in MsgIds => messages[id].createdAt < messages[c.before].createdAt}

\* C15: a history fetch answers with min(L, k) of the k eligible messages,
\* none older than an eligible message it leaves out, oldest first; hasMore
\* is true iff k > L; the cursor is the id of the first (oldest) message of
\* the page, and null for an empty page.
C15_PageContract ==
    \A c \in InFlight :
        (c.op = "getMessages" /\ c.pc = "done" /\ c.status = 200) =>
            LET ids == PageIds(c.page)
                k == Cardinality(Eligible(c))
            IN /\ Len(ids) = IF c.limit < k THEN c.limit ELSE k
               /\ Cardinality(Range(ids)) = Len(ids)
               /\ Range(ids) \subseteq Eligible(c)
               /\ \A i \in Range(ids), o \in Eligible(c) \ Range(ids) :
                     messages[i].createdAt >= messages[o].createdAt
               /\ \A i, j \in DOMAIN ids :
                     i < j => messages[ids[i]].createdAt <= messages[ids[j]].createdAt
               /\ \A i \in DOMAIN ids : c.page[i].createdAt = messages[ids[i]].createdAt
               /\ c.hasMore = (k > c.limit)
               /\ c.cursor = IF ids = <<>> THEN None ELSE ids[1]

\* a fetch with a cursor has answered with one of the two eligible messages
\* and hasMore true
C15_Witness ==
    \E c \in InFlight :
        /\ c.op = "getMessages" /\ c.pc = "done" /\ c.status = 200
        /\ c.before \in MsgIds /\ c.hasMore
        /\ Len(c.page) = 1 /\ c.cursor = c.page[1].id
        /\ Cardinality(Eligible(c)) = 2

\* the history fetches of callers outside the conversation, or of a
\* conversation that does not exist
Outsiders ==
    {c \in InFlight :
        /\ c.op = "getMessages"
        /\ \/ c.conversationId \notin ConvIds
           \/ c.userId \notin Range(conversations[c.conversationId].participants)}

\* C16: a history fetch by a user outside the conversation ends at once in
\* a permission failure, or not-found when the conversation does not exist;
\* it returns no message, marks nothing, and the step that makes it leaves
\* every stored message as it was.
C16_OutsiderFetchRefused ==
    /\ [](\A c \in Outsiders :
             /\ c.pc = "done"
             /\ c.status = IF c.conversationId \in ConvIds THEN 403 ELSE 404
             /\ c.page = <<>> /\ c.cursor = None /\ ~c.hasMore
             /\ c.scan = 1 /\ c.modified = 0)
    /\ [][\A c \in BagToSet(calls') :
             (/\ c.op = "getMessages" /\ c.status \in {403, 404}
              /\ CopiesIn(c, calls') > CopiesIn(c, calls)) => messages' = messages]_vars

\* user 3 has been refused the conversation of users 1 and 2, a fetch of a
\* missing conversation has been answered not-found, and the stored message
\* is still unread
C16_Witness ==
    /\ \E c \in Outsiders : c.userId = 3 /\ c.conversationId = 1 /\ c.status = 403
    /\ \E c \in Outsiders : c.conversationId = 2 /\ c.status = 404
    /\ messages[1].readBy = <<1>>

\* the sends that must be rejected: no text but whitespace, a conversation
\* that does not exist, a sender outside the conversation
BadSends ==
    {c \in InFlight :
        /\ c.op = "sendMessage"
        /\ \/ \A i \in DOMAIN c.text : c.text[i] = " "
           \/ c.conversationId \notin ConvIds
           \/ c.userId \notin Range(conversations[c.conversationId].participants)}

\* the sends this step receives
SendsReceived ==
    {c \in BagToSet(calls') :
        /\ c.op = "sendMessage"
        /\ BagCardinality(calls') > BagCardinality(calls)
        /\ CopiesIn(c, calls') > CopiesIn(c, calls)}

\* C17: a send with empty or whitespace-only text, to a conversation that
\* does not exist, or by a user outside the conversation is rejected at once
\* (400, 404, 403 in this order of precedence) and never makes a message; the
\* step that rejects it leaves the message log, the conversations (snapshot
\* and updated-at) and the emitted events unchanged.
C17_BadSendRejected ==
    /\ [](\A c \in BadSends :
             /\ c.pc = "done"
             /\ c.status \in {400, 403, 404}
             /\ c.message = NoMessage
             /\ c.encryptedText = <<>>)
    /\ [][\A c \in SendsReceived :
             IF \A i \in DOMAIN c.text : c.text[i] = " "
             THEN c.pc = "done" /\ c.status = 400 /\ UNCHANGED <<messages, conversations, emitted>>
             ELSE IF c.conversationId \notin ConvIds
             THEN c.pc = "done" /\ c.status = 404 /\ UNCHANGED <<messages, conversations, emitted>>
             ELSE IF c.userId \notin Range(conversations[c.conversationId].participants)
             THEN c.pc = "done" /\ c.status = 403 /\ UNCHANGED <<messages, conversations, emitted>>
             ELSE c.pc = "create"]_vars

\* a whitespace-only send and a send of user 3 into the conversation of users
\* 1 and 2 have been rejected while that conversation holds a message
C17_Witness ==
    /\ \E c \in BadSends : c.text = <<" ">> /\ c.status = 400
    /\ \E c \in BadSends : c.status = 403 /\ c.text = <<" ", "h", "i">>
    /\ messages # <<>>

\* the startConversation calls rejected before the lookup
StartsRejected ==
    {c \in InFlight : c.op = "startConversation" /\ c.status \in {400, 403}}

\* C18: a rejected startConversation creates no conversation, and a step
\* that stores a conversation stores one of two different users who, at that
\* time, are mutual friends with no block between them.
C18_OnlyEligibleRows ==
    /\ [](\A c \in StartsRejected : c.pc = "done" /\ c.conversation = NoConversation)
    /\ [][/\ \A c \in BagToSet(calls') :
                (/\ c.op = "startConversation" /\ c.status \in {400, 403}
                 /\ CopiesIn(c, calls') > CopiesIn(c, calls)) =>
                    conversations' = conversations
          /\ Len(conversations') > Len(conversations) =>
                LET participants == conversations'[Len(conversations')].participants
                IN /\ Len(participants) = 2
                   /\ participants[1] # participants[2]
                   /\ CanMessage(participants[1], participants[2])]_vars

\* C19: for an eligible pair, a startConversation of the one user with the
\* other as peer and a startConversation of the other with the one as peer
\* both return a conversation, and it is the same one.
C19_SymmetricStart ==
    \A c, d \in InFlight :
        (/\ c.op = "startConversation" /\ d.op = "startConversation"
         /\ c.pc = "done" /\ d.pc = "done"
         /\ c.userId = d.participantId /\ c.participantId = d.userId
         /\ c.userId # c.participantId
         /\ CanMessage(c.userId, c.participantId)) =>
            /\ c.status = 200 /\ d.status = 200
            /\ c.conversation.id = d.conversation.id

\* C20: whatever text is sealed, and whether the cipher works or throws,
\* opening what was sealed gives the text back.
C20_RoundTrip ==
    \A c \in InFlight : (c.op = "codec" /\ c.pc = "opened") => c.opened = c.text

\* the stored body a message text is
BodyOf(text) == CHOOSE b \in StoredBodies : b.text = text

\* the history pages that have been answered
Pages == {c \in InFlight : c.op = "getMessages" /\ c.pc = "done" /\ c.status = 200}

\* C21: a stored body that is plaintext written before encryption, whatever
\* number of ':' it contains, is returned unchanged when it is opened for a
\* history page.
C21_PlaintextUnchanged ==
    \A c \in Pages :
        \A i \in DOMAIN c.page :
            BodyOf(messages[c.page[i].id].text).kind = "plain" =>
                c.page[i].text = messages[c.page[i].id].text

C23_SnapshotFailureNonFatal ==
    \A c \in InFlight :
        (c.op = "sendMessage" /\ c.pc = "done" /\ c.message.id # None) =>
            /\ c.message.id \in MsgIds
            /\ c.status = 201
            /\ \E e \in NewMessages : e.message.id = c.message.id

\* the sends that answer this step
SendsAnswered ==
    {c \in BagToSet(calls') :
        /\ c.op = "sendMessage" /\ c.pc = "done" /\ c.message.id # None
        /\ CopiesIn(c, calls') > CopiesIn(c, calls)}

\* the events this step emits
EventsAdded == {e \in BagToSet(emitted') : CopiesIn(e, emitted') > CopiesIn(e, emitted)}

\* the connections of a user that are live
Live(userId) ==
    {s \in Sockets : sockets[s].state = "joined" /\ sockets[s].userId = userId}

\* C24: a send answers 201 with its stored message whether or not the peer
\* has a live connection; its newMessage event goes to the connections of
\* the peer that are live at that moment, to none when there is none; an
\* emitted event is never changed or emitted again, and no step of a
\* connection (connect, authenticate, join, disconnect) emits anything, so a
\* dropped event reaches no later connection; every history page of the
\* peer holds the messages stored when it was read.
C24_OfflinePeerDropsEvent ==
    /\ [](\A c \in Pages :
             \A id \in MsgIds :
                 (id <= c.last /\ messages[id].conversationId = c.conversationId) =>
                     \E i \in DOMAIN c.page :
                         /\ c.page[i].id = id
                         /\ c.page[i].text = decrypt(messages[id].text))
    /\ [][/\ \A c \in SendsAnswered :
                /\ c.status = 201
                /\ c.message.id \in MsgIds
                /\ c.message = [MessageDoc(c.message.id) EXCEPT !.text = c.sanitizedText]
                /\ \E e \in EventsAdded :
                      /\ EventsAdded = {e}
                      /\ CopiesIn(e, emitted') = 1
                      /\ e.type = "newMessage" /\ e.message = c.message
                      /\ e.room = Peer(c.conversationId, c.userId)
                      /\ e.to = Live(e.room)
          /\ \A e \in BagToSet(emitted) : CopiesIn(e, emitted') = CopiesIn(e, emitted)
          /\ EventsAdded # {} => SendsAnswered # {}
          /\ sockets' # sockets => emitted' = emitted]_vars

\* a send has answered 201 and its event was dropped, the peer has a live
\* connection now, and a history page of the peer holds the message
C24_Witness ==
    /\ \E c \in InFlight :
          /\ c.op = "sendMessage" /\ c.pc = "done" /\ c.status = 201
          /\ \E e \in NewMessages : e.message.id = c.message.id /\ e.to = {}
    /\ Live(2) # {}
    /\ \E c \in Pages : c.userId = 2 /\ Len(c.page) = 1

\* C25: a history fetch whose cursor names no stored message ends in a
\* not-found failure and returns no page.
C25_MissingCursorNotFound ==
    \A c \in InFlight :
        (/\ c.op = "getMessages" /\ c.pc = "done"
         /\ c.before # None /\ c.before \notin MsgIds) =>
            /\ c.status = 404
            /\ c.page = <<>>

\* the sends to a conversation that have not answered yet
Sending(conversationId) ==
    {c \in InFlight : /\ c.op = "sendMessage" /\ c.pc # "done"
                      /\ c.conversationId = conversationId}

\* the stored messages of a conversation with the greatest creation time
Latest(conversationId) ==
    {id \in MsgIds :
        /\ messages[id].conversationId = conversationId
        /\ \A o \in MsgIds :
              messages[o].conversationId = conversationId =>
                  messages[o].createdAt <= messages[id].createdAt}

\* C26: while no send to a conversation is in flight, the last-message
\* snapshot of the conversation (sealed text, sender, creation time) is that
\* of a stored message with the greatest creation time.
C26_SnapshotIsLatest ==
    \A id \in ConvIds :
        (Sending(id) = {} /\ Latest(id) # {}) =>
            \E m \in Latest(id) :
                conversations[id].lastMessage =
                    [text |-> messages[m].text, sender |-> messages[m].sender,
                     createdAt |-> messages[m].createdAt]

\* C27: a history fetch without cursor adds its caller to the reader set of
\* a message only if the message is in the page it has read or is older than
\* every message of that page.
C27_FetchMarksOnlyItsPage ==
    [][\A c \in InFlight :
          (c.op = "getMessages" /\ c.pc = "updateMany" /\ c.before = None) =>
              \A id \in MsgIds :
                  (/\ messages'[id].readBy # messages[id].readBy
                   /\ calls' = Step(c, [c EXCEPT !.scan = id + 1, !.modified = @ + 1])) =>
                      \/ \E i \in DOMAIN c.page : c.page[i].id = id
                      \/ \A i \in DOMAIN c.page :
                            messages[id].createdAt < c.page[i].createdAt]_vars

\* the typing indicators relayed
TypingRelayed == {e \in BagToSet(emitted) : e.type \in {"userTyping", "userStopTyping"}}

\* C28: every relayed typing indicator names a user who is a participant of
\* its conversation and goes to the channel of the other participant only.
C28_TypingOnlyByParticipant ==
    \A e \in TypingRelayed :
        /\ e.conversationId \in ConvIds
        /\ e.actor \in Range(conversations[e.conversationId].participants)
        /\ e.room \in Range(conversations[e.conversationId].participants)
        /\ e.room # e.actor

\* C29: the store rejects the creation of a conversation only when a
\* conversation of the same pair is stored: a startConversation that ends in
\* a server error has found the pair's conversation in its way, and a user
\* who has a conversation with one peer can create one with another.
C29_OnlySamePairRejected ==
    \A c \in InFlight :
        (c.op = "startConversation" /\ c.pc = "done" /\ c.status = 500) =>
            StoredFor(c.userId, c.participantId) # {}

\* the texts a user has received: in history pages, inbox entries, send
\* responses, startConversation responses and the newMessage events written
\* to the user's connections
ReceivedBy(u) ==
    UNION {{c.page[i].text : i \in DOMAIN c.page} :
        c \in {d \in InFlight : d.op = "getMessages" /\ d.pc = "done" /\ d.userId = u}}
    \cup UNION {{c.inbox[i].conversation.lastMessage.text : i \in DOMAIN c.inbox} :
        c \in {d \in InFlight : d.op = "getConversations" /\ d.pc = "done"
                                   /\ d.userId = u}}
    \cup {c.message.text :
        c \in {d \in InFlight : d.op = "sendMessage" /\ d.pc = "done" /\ d.userId = u}}
    \cup {c.conversation.lastMessage.text :
        c \in {d \in InFlight : d.op = "startConversation" /\ d.pc = "done"
                                   /\ d.userId = u}}
    \cup {e.message.text :
        e \in {d \in BagToSet(emitted) :
                  \/ d.room = u
                  \/ \E s \in d.to : sockets[s].userId = u}}

\* the texts of a conversation, sealed and opened
TextsOf(conversationId) ==
    LET stored == {messages[id].text :
                      id \in {m \in MsgIds : messages[m].conversationId = conversationId}}
                  \cup {conversations[conversationId].lastMessage.text}
    IN (stored \cup {decrypt(t) : t \in stored}) \ {<<>>}

\* C30: no user has received, in a history page, an inbox entry, a send or
\* startConversation response or a realtime event, a text of a conversation
\* of which the user is not a participant.
C30_NoForeignText ==
    \A u \in Users, id \in ConvIds :
        ~isParticipant(id, u) => ReceivedBy(u) \cap TextsOf(id) = {}

\* a participant has fetched a conversation with a cursor that names a
\* message of the other conversation and has been answered a page with a
\* message, and a user outside a conversation has been refused its history
C30_Witness ==
    /\ \E c \in Pages :
          /\ c.before \in MsgIds
          /\ messages[c.before].conversationId # c.conversationId
          /\ Len(c.page) = 1
    /\ \E c \in InFlight :
          /\ c.op = "getMessages" /\ c.pc = "done" /\ c.status = 403
          /\ ~isParticipant(c.conversationId, c.userId)
====
